---- MODULE Spec2Model ----
(***************************************************************************)
(* Model of src/main.py: the systematic-review pipeline.                   *)
(*                                                                         *)
(*   - module import: credential check (lines 10-17) and the construction  *)
(*     of the six agents (lines 88-93);                                    *)
(*   - crossref_search_json (lines 23-40), the one tool;                   *)
(*   - run (lines 102-134), the six blocking agent calls with their        *)
(*     .get(field, default) fallbacks and console panels.                  *)
(*                                                                         *)
(* The language-model backend and the Crossref HTTP service are the        *)
(* environment: every result they can give is a nondeterministic choice.   *)
(* Python mappings (os.environ, JSON objects, a dspy Prediction, the       *)
(* locals of run) are functions whose DOMAIN is the set of keys present.   *)
(***************************************************************************)
EXTENDS Integers, Sequences, FiniteSets, TLC

\* ------------------------------------------------------------------ bounds
NumInv   == 2   \* calls of run() a hosting process makes
MaxIters == 1   \* tool calls the backend makes within one agent call
MaxItems == 2   \* items in one Crossref response body
MaxCalls == 2   \* direct calls of crossref_search_json (connector harness)

\* Python's None
None == "<None>"

\* The empty mapping {}
EmptyMap == [k \in {} |-> None]

\* dict.get(key, default) / Prediction.get(key, default)
Get(m, key, default) == IF key \in DOMAIN m THEN m[key] ELSE default

\* ------------------------------------------------- startup (lines 10-17)
CredentialNames == <<"GOOGLE_API_KEY", "GEMINI_API_KEY">>

\* values an environment variable can hold when it is set
EnvValues(name) == IF name = "GOOGLE_API_KEY" THEN {"", "k1"} ELSE {"", "k2"}

\* the process environments after load_dotenv(): each name unset, or set
\* (possibly to the empty string)
Environs ==
  UNION { { e \in [S -> {"", "k1", "k2"}] : \A n \in S : e[n] \in EnvValues(n) } :
          S \in SUBSET { CredentialNames[k] : k \in 1..2 } }

\* os.getenv(name)
getenv(env, name) == Get(env, name, None)

\* Python truthiness of an Optional[str]
Truthy(v) == v # None /\ v # ""

\* a or b
PyOr(a, b) == IF Truthy(a) THEN a ELSE b

\* faulty variant: the two names are read in the other order
ResolveKey_GeminiFirst(env) ==
  PyOr(getenv(env, "GEMINI_API_KEY"), getenv(env, "GOOGLE_API_KEY"))

\* line 13
ResolveKey(env) == PyOr(getenv(env, CredentialNames[1]), getenv(env, CredentialNames[2]))

\* ------------------------------------- crossref_search_json (lines 23-40)
Rows == 5

\* faulty variant: the URL asks for 20 rows
BuildUrl_TwentyRows(query) ==
  [path |-> "https://api.crossref.org/works", query |-> query, rows |-> 20]

\* line 25: the URL requested, as its variable parts
BuildUrl(query) == [path |-> "https://api.crossref.org/works", query |-> query, rows |-> Rows]

\* JSON objects of message.items: each key present or absent
MetaChoices ==
  { EmptyMap,
    ("DOI" :> "10.1/a"),
    ("DOI" :> "10.1/a" @@ "URL" :> "http://a" @@ "publisher" :> "P") }

TitleLists == { <<>>, <<"T">>, <<"T", "U">>, <<"">> }

TitleChoices == { EmptyMap } \cup { ("title" :> t) : t \in TitleLists }

Items == { m @@ t : m \in MetaChoices, t \in TitleChoices }

\* an item as the service lists it, all four keys present
FullItem == ("DOI" :> "10.1/a" @@ "URL" :> "http://a" @@ "publisher" :> "P"
             @@ "title" :> <<"T">>)

\* pages longer than MaxItems, up to one item more than the rows asked for
LongPages == { [k \in 1..n |-> FullItem] : n \in (MaxItems + 1)..(Rows + 1) }

ItemLists == UNION { [1..n -> Items] : n \in 0..MaxItems } \cup LongPages

\* response bodies: {}, {"message": {}}, {"message": {"items": [...]}}
Bodies ==
  { EmptyMap, ("message" :> EmptyMap) }
  \cup { ("message" :> ("items" :> l)) : l \in ItemLists }

Statuses == { 200, 201, 204, 299, 301, 404, 500 }

\* what requests.get can return: a status, and a body that parses as JSON or not
Responses ==
  { [status_code |-> c, json_ok |-> TRUE, data |-> b] : c \in Statuses, b \in Bodies }
  \cup { [status_code |-> c, json_ok |-> FALSE, data |-> EmptyMap] : c \in Statuses }

\* the three outcomes of one call: the error dict, the list of papers, an exception
ErrorResult == [kind |-> "error", value |-> <<>>]
Raised      == [kind |-> "raise", value |-> <<>>]
Papers(l)   == [kind |-> "papers", value |-> l]

\* lines 34-39: the record appended for one item (title is the list read at line 36)
Publication(item, title) ==
  [ doi       |-> Get(item, "DOI", None),
    title     |-> title[1],
    url       |-> Get(item, "URL", None),
    publisher |-> Get(item, "publisher", None) ]

\* line 36: item.get("title", ["Untitled"])
TitleOf(item) == Get(item, "title", <<"Untitled">>)

\* lines 32-40: the for loop; indexing an empty list raises IndexError
RECURSIVE MapItems(_, _)
MapItems(items, papers) ==
  IF items = <<>> THEN Papers(papers)
  ELSE LET item  == Head(items)
           title == TitleOf(item)
       IN IF title = <<>> THEN Raised
          ELSE MapItems(Tail(items), Append(papers, Publication(item, title)))

\* faulty variant: only server errors count as a failed fetch
FetchFailed_ServerErrors(response) == response.status_code >= 500

\* line 27
FetchFailed(response) == response.status_code # 200

\* lines 23-40
crossref_search_json(query, response) ==
  IF FetchFailed(response) THEN ErrorResult
  ELSE IF ~response.json_ok THEN Raised
  ELSE LET data  == response.data
           items == Get(Get(data, "message", EmptyMap), "items", <<>>)
       IN MapItems(items, <<>>)

\* --------------------------------------------- the six agents (lines 46-93)
Stages ==
  << "problem_agent", "query_builder_agent", "retrieval_agent",
     "prescreen_agent", "pdf_agent", "synthesis_agent" >>

StageSet == { Stages[k] : k \in 1..Len(Stages) }

\* position of an agent in run()
Index(s) == CHOOSE k \in 1..Len(Stages) : Stages[k] = s

\* faulty variant: the prescreening agent is given the tool as well
Tools_PrescreenToo(s) ==
  IF s \in { "retrieval_agent", "prescreen_agent" } THEN { "crossref_search_json" } ELSE {}

\* lines 88-93: the tools= argument of each agent
Tools(s) == IF s = "retrieval_agent" THEN { "crossref_search_json" } ELSE {}

\* lines 88-93: the dspy module wrapping each signature
Mode(s) == IF s = "synthesis_agent" THEN "ChainOfThought" ELSE "ReAct"

\* lines 46-82: the OutputField of each signature, which run() reads with .get
OutputField(s) ==
  CASE s = "problem_agent"       -> "refined_query"
    [] s = "query_builder_agent" -> "search_query"
    [] s = "retrieval_agent"     -> "papers"
    [] s = "prescreen_agent"     -> "filtered_papers"
    [] s = "pdf_agent"           -> "pdf_links"
    [] s = "synthesis_agent"     -> "final_summary"

\* faulty variant: the retrieval agent is given the refined query
Kwargs_RefinedToRetrieval(s, loc) ==
  CASE s = "problem_agent"       -> ("query" :> loc["query"])
    [] s = "query_builder_agent" -> ("refined_query" :> loc["refined_query"])
    [] s = "retrieval_agent"     -> ("refined_query" :> loc["refined_query"])
    [] s = "prescreen_agent"     -> ("papers" :> loc["papers"])
    [] s = "pdf_agent"           -> ("filtered_papers" :> loc["filtered_papers"])
    [] s = "synthesis_agent"     -> ("pdf_links" :> loc["pdf_links"]
                                     @@ "filtered_papers" :> loc["filtered_papers"])

\* lines 107, 112, 117, 122, 127, 132: the keyword arguments of each call,
\* read from the locals of run()
Kwargs(s, loc) ==
  CASE s = "problem_agent"       -> ("query" :> loc["query"])
    [] s = "query_builder_agent" -> ("refined_query" :> loc["refined_query"])
    [] s = "retrieval_agent"     -> ("refined_query" :> loc["search_query"])
    [] s = "prescreen_agent"     -> ("papers" :> loc["papers"])
    [] s = "pdf_agent"           -> ("filtered_papers" :> loc["filtered_papers"])
    [] s = "synthesis_agent"     -> ("pdf_links" :> loc["pdf_links"]
                                     @@ "filtered_papers" :> loc["filtered_papers"])

\* lines 107, 112, 117, 122, 127, 132: the locals of run() each call reads
Reads(s) ==
  CASE s = "problem_agent"       -> { "query" }
    [] s = "query_builder_agent" -> { "refined_query" }
    [] s = "retrieval_agent"     -> { "search_query" }
    [] s = "prescreen_agent"     -> { "papers" }
    [] s = "pdf_agent"           -> { "filtered_papers" }
    [] s = "synthesis_agent"     -> { "pdf_links", "filtered_papers" }

\* lines 46-82: the input fields each signature declares
InputFields(s) ==
  CASE s = "problem_agent"       -> { "query" }
    [] s = "query_builder_agent" -> { "refined_query" }
    [] s = "retrieval_agent"     -> { "refined_query" }
    [] s = "prescreen_agent"     -> { "papers" }
    [] s = "pdf_agent"           -> { "filtered_papers" }
    [] s = "synthesis_agent"     -> { "pdf_links", "filtered_papers" }

Sentinel == "No papers were provided for analysis."

\* faulty variant: the search query falls back to the original query
Default_OriginalQuery(s, loc) ==
  CASE s = "problem_agent"       -> loc["query"]
    [] s = "query_builder_agent" -> loc["query"]
    [] s = "retrieval_agent"     -> <<>>
    [] s = "prescreen_agent"     -> <<>>
    [] s = "pdf_agent"           -> <<>>
    [] s = "synthesis_agent"     -> Sentinel

\* lines 108, 113, 118, 123, 128, 133: the default given to .get
Default(s, loc) ==
  CASE s = "problem_agent"       -> loc["query"]
    [] s = "query_builder_agent" -> loc["refined_query"]
    [] s = "retrieval_agent"     -> <<>>
    [] s = "prescreen_agent"     -> <<>>
    [] s = "pdf_agent"           -> <<>>
    [] s = "synthesis_agent"     -> Sentinel

\* lines 109, 114, 119, 124, 129, 134: the panel printed after each call
Panel(s, value) ==
  CASE s = "problem_agent"       -> [label |-> "Refined Query", shows |-> <<value>>]
    [] s = "query_builder_agent" -> [label |-> "Search Query", shows |-> <<value>>]
    [] s = "retrieval_agent"     -> [label |-> "Retrieved", shows |-> <<Len(value)>>]
    [] s = "prescreen_agent"     -> [label |-> "Filtered Papers", shows |-> <<value>>]
    [] s = "pdf_agent"           -> [label |-> "PDF Links", shows |-> <<value>>]
    [] s = "synthesis_agent"     -> [label |-> "Final Synthesized Summary", shows |-> <<value>>]

\* lines 103-104
Banner(query) ==
  << [label |-> "Systematic Review Pipeline", shows |-> <<>>],
     [label |-> "Input Query", shows |-> <<query>>] >>

\* ------------------------------------------------------- the environment
Queries == { "q1", "q2" }

SamplePaper == [doi |-> "10.1/a", title |-> "T", url |-> "http://a", publisher |-> "P"]

\* values the backend can put in each output field
Outputs(s) ==
  CASE s = "problem_agent"       -> { "", "r" }
    [] s = "query_builder_agent" -> { "", "s" }
    [] s = "retrieval_agent"     -> { <<>>, <<SamplePaper>> }
    [] s = "prescreen_agent"     -> { <<>>, <<SamplePaper>> }
    [] s = "pdf_agent"           -> { <<>>, <<"http://a.pdf">> }
    [] s = "synthesis_agent"     -> { "", "S" }

\* the Prediction an agent call returns: the declared output present or omitted
AgentResults(s) == { EmptyMap } \cup { (OutputField(s) :> v) : v \in Outputs(s) }

\* the arguments the backend can give the tool
ToolQueries == { "", "s", "alt" }

SampleItem == ("DOI" :> "10.1/a" @@ "URL" :> "http://a" @@ "publisher" :> "P"
               @@ "title" :> <<"T">>)

\* the responses Crossref gives during a pipeline run: a server error, one
\* item, one item whose title list is empty
ToolResponses ==
  { [status_code |-> 500, json_ok |-> FALSE, data |-> EmptyMap],
    [status_code |-> 200, json_ok |-> TRUE,
     data |-> ("message" :> ("items" :> <<SampleItem>>))],
    [status_code |-> 200, json_ok |-> TRUE,
     data |-> ("message" :> ("items" :> <<("title" :> <<>>)>>))] }

\* ------------------------------------------------------------------ state
Inv == 1..NumInv

VARIABLES
  environ,       \* os.environ after load_dotenv()
  api_key,       \* the module global of line 13
  proc,          \* "boot", "ready" (import done) or "failed" (line 15 raised)
  pc,            \* per call of run(): "idle", the agent awaited, "done", "aborted"
  loc,           \* per call of run(): its local variables
  out,           \* per call of run(): the panels it has printed
  calls,         \* per call of run(): the agent calls made, with their kwargs
  rets,          \* per call of run(): what each agent call came back with
  traj,          \* per call of run(): the observations of the agent call in progress
  sawError,      \* per call of run(): a tool call returned the error dict
  httpRequests,  \* requests.get calls made by the process
  conn           \* the last direct call of crossref_search_json

vars == << environ, api_key, proc, pc, loc, out, calls, rets, traj, sawError,
           httpRequests, conn >>

\* a direct call not yet made: its argument and the answer the service will give
Pending(query, response) ==
  [query |-> query, response |-> response, url |-> BuildUrl(""), result |-> Raised,
   made |-> FALSE]

NoConn == Pending("", CHOOSE r \in ToolResponses : TRUE)

Idle ==
  /\ pc = [i \in Inv |-> "idle"]
  /\ loc = [i \in Inv |-> EmptyMap]
  /\ out = [i \in Inv |-> <<>>]
  /\ calls = [i \in Inv |-> <<>>]
  /\ rets = [i \in Inv |-> <<>>]
  /\ traj = [i \in Inv |-> <<>>]
  /\ sawError = [i \in Inv |-> FALSE]
  /\ httpRequests = 0

\* the process before main.py is imported
Init ==
  /\ environ \in Environs
  /\ api_key = None
  /\ proc = "boot"
  /\ conn = NoConn
  /\ Idle

\* ------------------------------------------------ import (lines 10-17)
\* lines 13-17: resolve the credential; raise ValueError when it is falsy
Startup ==
  /\ proc = "boot"
  /\ api_key' = ResolveKey(environ)
  /\ proc' = IF ~Truthy(ResolveKey(environ)) THEN "failed" ELSE "ready"
  /\ UNCHANGED << environ, pc, loc, out, calls, rets, traj, sawError, httpRequests, conn >>

\* ------------------------------------------------- run (lines 102-134)
\* the record of one agent call: the agent, its kwargs, the locals bound then
Call(s, l) == [stage |-> s, kwargs |-> Kwargs(s, l), bound |-> DOMAIN l]

\* lines 102-107: run(query) prints the banner and calls the first agent
Enter(i, query) ==
  /\ proc = "ready"
  /\ pc[i] = "idle"
  /\ LET l == ("query" :> query)
     IN /\ loc' = [loc EXCEPT ![i] = l]
        /\ out' = [out EXCEPT ![i] = Banner(query)]
        /\ calls' = [calls EXCEPT ![i] = << Call(Stages[1], l) >>]
        /\ pc' = [pc EXCEPT ![i] = Stages[1]]
  /\ UNCHANGED << environ, api_key, proc, rets, traj, sawError, httpRequests, conn >>

\* faulty variant: the error result of the tool ends the call of run()
Observe_ErrorAborts(i, query, response) ==
  /\ pc[i] \in StageSet
  /\ Mode(pc[i]) = "ReAct"
  /\ "crossref_search_json" \in Tools(pc[i])
  /\ Len(traj[i]) < MaxIters
  /\ LET result == crossref_search_json(query, response)
     IN /\ traj' = [traj EXCEPT ![i] = IF result.kind = "error" THEN <<>> ELSE Append(@, result)]
        /\ sawError' = [sawError EXCEPT ![i] = @ \/ result.kind = "error"]
        /\ pc' = [pc EXCEPT ![i] = IF result.kind = "error" THEN "aborted" ELSE @]
  /\ httpRequests' = httpRequests + 1
  /\ UNCHANGED << environ, api_key, proc, loc, out, calls, rets, conn >>

\* faulty variant: the loop starts a fresh trajectory when its budget is
\* used up, and goes on calling the tool
Observe_RestartsBudget(i, query, response) ==
  /\ pc[i] \in StageSet
  /\ Mode(pc[i]) = "ReAct"
  /\ "crossref_search_json" \in Tools(pc[i])
  /\ LET result == crossref_search_json(query, response)
     IN /\ traj' = [traj EXCEPT ![i] =
                      IF Len(@) < MaxIters THEN Append(@, result) ELSE << result >>]
        /\ sawError' = [sawError EXCEPT ![i] = @ \/ result.kind = "error"]
  /\ httpRequests' = IF httpRequests < MaxIters THEN httpRequests + 1 ELSE httpRequests
  /\ UNCHANGED << environ, api_key, proc, pc, loc, out, calls, rets, conn >>

\* the ReAct loop of the agent awaited calls one of its tools (line 90); an
\* exception raised by the tool is caught by the loop and becomes the observation
Observe(i, query, response) ==
  /\ pc[i] \in StageSet
  /\ Mode(pc[i]) = "ReAct"
  /\ "crossref_search_json" \in Tools(pc[i])
  /\ Len(traj[i]) < MaxIters
  /\ LET result == crossref_search_json(query, response)
     IN /\ traj' = [traj EXCEPT ![i] = Append(@, result)]
        /\ sawError' = [sawError EXCEPT ![i] = @ \/ result.kind = "error"]
  /\ httpRequests' = httpRequests + 1
  /\ UNCHANGED << environ, api_key, proc, pc, loc, out, calls, rets, conn >>

\* faulty variant: run() returns once the papers are retrieved
NextPc_EarlyExit(s) ==
  IF Index(s) = Len(Stages) \/ s = "retrieval_agent" THEN "done" ELSE Stages[Index(s) + 1]

\* where run() goes after agent s returned
NextPc(s) == IF Index(s) = Len(Stages) THEN "done" ELSE Stages[Index(s) + 1]

\* the record of how an agent call ended
Ret(s, kwargs, observed, failed, result) ==
  [stage |-> s, kwargs |-> kwargs, observed |-> observed, failed |-> failed,
   result |-> result]

\* faulty variant: the papers are kept in a list shared by the calls of run()
Resume_SharedPapers(i, result) ==
  /\ pc[i] \in StageSet
  /\ LET s     == pc[i]
         got   == Get(result, OutputField(s), Default(s, loc[i]))
         value == IF s = "retrieval_agent" /\ i > 1 /\ "papers" \in DOMAIN loc[i - 1]
                  THEN loc[i - 1]["papers"] \o got ELSE got
         l     == (OutputField(s) :> value) @@ loc[i]
     IN /\ loc' = [loc EXCEPT ![i] = l]
        /\ out' = [out EXCEPT ![i] = Append(@, Panel(s, value))]
        /\ rets' = [rets EXCEPT ![i] = Append(@, Ret(s, Kwargs(s, loc[i]), traj[i], FALSE, result))]
        /\ pc' = [pc EXCEPT ![i] = NextPc(s)]
        /\ calls' = [calls EXCEPT ![i] =
                       IF NextPc(s) = "done" THEN @ ELSE Append(@, Call(NextPc(s), l))]
  /\ traj' = [traj EXCEPT ![i] = <<>>]
  /\ UNCHANGED << environ, api_key, proc, sawError, httpRequests, conn >>

\* faulty variant: the local is assigned only when the field is present, so
\* after an omission the next call finds a name it reads unbound
Resume_AssignIfPresent(i, result) ==
  /\ pc[i] \in StageSet
  /\ LET s       == pc[i]
         present == OutputField(s) \in DOMAIN result
         l       == IF present THEN (OutputField(s) :> result[OutputField(s)]) @@ loc[i]
                    ELSE loc[i]
         next    == IF Reads(NextPc(s)) \subseteq DOMAIN l THEN Call(NextPc(s), l)
                    ELSE [stage |-> NextPc(s), kwargs |-> EmptyMap, bound |-> DOMAIN l]
     IN /\ loc' = [loc EXCEPT ![i] = l]
        /\ out' = [out EXCEPT ![i] =
                     IF present THEN Append(@, Panel(s, result[OutputField(s)])) ELSE @]
        /\ rets' = [rets EXCEPT ![i] = Append(@, Ret(s, Kwargs(s, loc[i]), traj[i], FALSE, result))]
        /\ pc' = [pc EXCEPT ![i] = NextPc(s)]
        /\ calls' = [calls EXCEPT ![i] = IF NextPc(s) = "done" THEN @ ELSE Append(@, next)]
  /\ traj' = [traj EXCEPT ![i] = <<>>]
  /\ UNCHANGED << environ, api_key, proc, sawError, httpRequests, conn >>

\* faulty variant: the default also replaces a value that is present but
\* empty (`result.get(field) or default`)
Resume_FallbackOnEmpty(i, result) ==
  /\ pc[i] \in StageSet
  /\ LET s     == pc[i]
         field == OutputField(s)
         empty == IF s \in { "problem_agent", "query_builder_agent", "synthesis_agent" }
                  THEN "" ELSE <<>>
         value == IF field \in DOMAIN result /\ result[field] # empty
                  THEN result[field] ELSE Default(s, loc[i])
         l     == (field :> value) @@ loc[i]
     IN /\ loc' = [loc EXCEPT ![i] = l]
        /\ out' = [out EXCEPT ![i] = Append(@, Panel(s, value))]
        /\ rets' = [rets EXCEPT ![i] = Append(@, Ret(s, Kwargs(s, loc[i]), traj[i], FALSE, result))]
        /\ pc' = [pc EXCEPT ![i] = NextPc(s)]
        /\ calls' = [calls EXCEPT ![i] =
                       IF NextPc(s) = "done" THEN @ ELSE Append(@, Call(NextPc(s), l))]
  /\ traj' = [traj EXCEPT ![i] = <<>>]
  /\ UNCHANGED << environ, api_key, proc, sawError, httpRequests, conn >>

\* faulty variant: the refined query is also written back into `query`
Resume_RewritesQuery(i, result) ==
  /\ pc[i] \in StageSet
  /\ LET s     == pc[i]
         value == Get(result, OutputField(s), Default(s, loc[i]))
         l     == IF s = "problem_agent"
                  THEN (OutputField(s) :> value) @@ ("query" :> value) @@ loc[i]
                  ELSE (OutputField(s) :> value) @@ loc[i]
     IN /\ loc' = [loc EXCEPT ![i] = l]
        /\ out' = [out EXCEPT ![i] = Append(@, Panel(s, value))]
        /\ rets' = [rets EXCEPT ![i] = Append(@, Ret(s, Kwargs(s, loc[i]), traj[i], FALSE, result))]
        /\ pc' = [pc EXCEPT ![i] = NextPc(s)]
        /\ calls' = [calls EXCEPT ![i] =
                       IF NextPc(s) = "done" THEN @ ELSE Append(@, Call(NextPc(s), l))]
  /\ traj' = [traj EXCEPT ![i] = <<>>]
  /\ UNCHANGED << environ, api_key, proc, sawError, httpRequests, conn >>

\* faulty variant: the refined query is kept in a module-level variable, so
\* the fallback of the search query reads what any call of run() stored last
Resume_GlobalRefined(i, result) ==
  /\ pc[i] \in StageSet
  /\ LET s      == pc[i]
         others == { j \in Inv : j # i /\ "refined_query" \in DOMAIN loc[j] }
         shared == IF s = "query_builder_agent" /\ others # {}
                   THEN loc[CHOOSE j \in others : TRUE]["refined_query"]
                   ELSE Default(s, loc[i])
         value  == Get(result, OutputField(s), shared)
         l      == (OutputField(s) :> value) @@ loc[i]
     IN /\ loc' = [loc EXCEPT ![i] = l]
        /\ out' = [out EXCEPT ![i] = Append(@, Panel(s, value))]
        /\ rets' = [rets EXCEPT ![i] = Append(@, Ret(s, Kwargs(s, loc[i]), traj[i], FALSE, result))]
        /\ pc' = [pc EXCEPT ![i] = NextPc(s)]
        /\ calls' = [calls EXCEPT ![i] =
                       IF NextPc(s) = "done" THEN @ ELSE Append(@, Call(NextPc(s), l))]
  /\ traj' = [traj EXCEPT ![i] = <<>>]
  /\ UNCHANGED << environ, api_key, proc, sawError, httpRequests, conn >>

\* the agent awaited returns `result`: run() reads the output field with its
\* default, prints the panel and calls the next agent (or returns)
Resume(i, result) ==
  /\ pc[i] \in StageSet
  /\ LET s     == pc[i]
         value == Get(result, OutputField(s), Default(s, loc[i]))
         l     == (OutputField(s) :> value) @@ loc[i]
     IN /\ loc' = [loc EXCEPT ![i] = l]
        /\ out' = [out EXCEPT ![i] = Append(@, Panel(s, value))]
        /\ rets' = [rets EXCEPT ![i] = Append(@, Ret(s, Kwargs(s, loc[i]), traj[i], FALSE, result))]
        /\ pc' = [pc EXCEPT ![i] = NextPc(s)]
        /\ calls' = [calls EXCEPT ![i] =
                       IF NextPc(s) = "done" THEN @ ELSE Append(@, Call(NextPc(s), l))]
  /\ traj' = [traj EXCEPT ![i] = <<>>]
  /\ UNCHANGED << environ, api_key, proc, sawError, httpRequests, conn >>

\* faulty variant: the failed agent is called again
Abort_Retry(i) ==
  /\ pc[i] \in StageSet
  /\ Len(rets[i]) < Len(Stages)
  /\ rets' = [rets EXCEPT ![i] = Append(@, Ret(pc[i], Kwargs(pc[i], loc[i]), traj[i], TRUE, EmptyMap))]
  /\ calls' = [calls EXCEPT ![i] = Append(@, Call(pc[i], loc[i]))]
  /\ traj' = [traj EXCEPT ![i] = <<>>]
  /\ UNCHANGED << environ, api_key, proc, pc, loc, out, sawError, httpRequests, conn >>

\* the agent awaited raises (the backend is unreachable or rejects the
\* request): nothing in run() catches it
Abort(i) ==
  /\ pc[i] \in StageSet
  /\ rets' = [rets EXCEPT ![i] = Append(@, Ret(pc[i], Kwargs(pc[i], loc[i]), traj[i], TRUE, EmptyMap))]
  /\ pc' = [pc EXCEPT ![i] = "aborted"]
  /\ traj' = [traj EXCEPT ![i] = <<>>]
  /\ UNCHANGED << environ, api_key, proc, loc, out, calls, sawError, httpRequests, conn >>

\* the steps of call i of run(), each with every input the environment can give
Run(i) == \E query \in Queries : Enter(i, query)

ToolCall(i) == \E query \in ToolQueries, response \in ToolResponses : Observe(i, query, response)

AgentReturns(i) ==
  /\ pc[i] \in StageSet
  /\ \E result \in AgentResults(pc[i]) : Resume(i, result)

AgentFails(i) == Abort(i)

\* the command-line program: import, then one call of run()
Next ==
  \/ Startup
  \/ Run(1)
  \/ ToolCall(1)
  \/ AgentReturns(1)
  \/ AgentFails(1)

Spec == Init /\ [][Next]_vars

\* ------------------------------------------- the connector called directly
\* the process after a successful import, no call of run() under way
Hosted ==
  /\ environ = ("GOOGLE_API_KEY" :> "k1")
  /\ api_key = "k1"
  /\ proc = "ready"
  /\ Idle

\* a caller about to call crossref_search_json(query), and the answer the
\* service gives to that query
InitConn ==
  /\ Hosted
  /\ \E query \in ToolQueries, response \in Responses : conn = Pending(query, response)

\* faulty variant: a failed fetch is tried a second time
Search_RetryOnError(query, response) ==
  /\ proc = "ready"
  /\ httpRequests < MaxCalls
  /\ httpRequests' = httpRequests + (IF FetchFailed(response) THEN 2 ELSE 1)
  /\ conn' = [query |-> query, response |-> response, url |-> BuildUrl(query),
              result |-> crossref_search_json(query, response), made |-> TRUE]
  /\ UNCHANGED << environ, api_key, proc, pc, loc, out, calls, rets, traj, sawError >>

\* lines 23-40: one call crossref_search_json(query), the service answering
\* `response` to the one requests.get of line 26
Search(query, response) ==
  /\ proc = "ready"
  /\ httpRequests < MaxCalls
  /\ httpRequests' = httpRequests + 1
  /\ conn' = [query |-> query, response |-> response, url |-> BuildUrl(query),
              result |-> crossref_search_json(query, response), made |-> TRUE]
  /\ UNCHANGED << environ, api_key, proc, pc, loc, out, calls, rets, traj, sawError >>

ConnectorCall == Search(conn.query, conn.response)

NextConn == ConnectorCall

SpecConn == InitConn /\ [][NextConn]_vars

\* ------------------------------- run() called repeatedly by a host process
\* The backend and the service are configured to answer identical inputs
\* identically: an agent call made with the kwargs of an earlier call of the
\* same agent sees the same observations and ends the same way.

\* call j of run() has ended a call of the agent that call i awaits, made
\* with the same kwargs (an agent is called at one position of run() only)
SameCall(i, j) ==
  /\ j # i
  /\ Len(rets[j]) >= Index(pc[i])
  /\ rets[j][Index(pc[i])].stage = pc[i]
  /\ rets[j][Index(pc[i])].kwargs = Kwargs(pc[i], loc[i])

\* how that call went
Earlier(i, j) == rets[j][Index(pc[i])]

IsPrefix(a, b) == Len(a) <= Len(b) /\ SubSeq(b, 1, Len(a)) = a

\* the agent awaited by call i may end as (failed, result) now
Repeatable(i, failed, result) ==
  \A j \in Inv :
    SameCall(i, j) =>
      /\ Earlier(i, j).observed = traj[i]
      /\ Earlier(i, j).failed = failed
      /\ Earlier(i, j).result = result

\* the query the host passes to every call of run()
HostQuery == CHOOSE query \in Queries : TRUE

\* call i of run() starts once the calls before it have ended
RunAgain(i) ==
  /\ \A j \in Inv : j < i => pc[j] \in { "done", "aborted" }
  /\ Enter(i, HostQuery)

ToolCallSame(i) ==
  /\ pc[i] \in StageSet
  /\ \E query \in ToolQueries, response \in ToolResponses :
       /\ Observe(i, query, response)
       /\ \A j \in Inv : SameCall(i, j) => IsPrefix(traj'[i], Earlier(i, j).observed)

ReturnsSame(i) ==
  /\ pc[i] \in StageSet
  /\ \E result \in AgentResults(pc[i]) : Repeatable(i, FALSE, result) /\ Resume(i, result)

FailsSame(i) ==
  /\ pc[i] \in StageSet
  /\ Repeatable(i, TRUE, EmptyMap)
  /\ Abort(i)

InitTwice == Hosted /\ conn = NoConn

NextTwice ==
  \E i \in Inv :
    \/ RunAgain(i)
    \/ ToolCallSame(i)
    \/ ReturnsSame(i)
    \/ FailsSame(i)

SpecTwice == InitTwice /\ [][NextTwice]_vars

\* --------------------------- calls of run() interleaved in one process
\* Several threads of a host call run(); a thread can be suspended while it
\* awaits an agent, so the steps of the calls interleave in any order. The
\* backend serves each call of run() in one manner throughout: it supplies
\* the declared field of every stage, or it omits every one.
Manners == { "supplies", "omits" }

\* the value a supplying backend puts in the output field of stage s
Fill(s) ==
  CASE s = "problem_agent"       -> "r"
    [] s = "query_builder_agent" -> "s"
    [] s = "retrieval_agent"     -> << SamplePaper >>
    [] s = "prescreen_agent"     -> << SamplePaper >>
    [] s = "pdf_agent"           -> << "http://a.pdf" >>
    [] s = "synthesis_agent"     -> "S"

Answer(s, manner) ==
  IF manner = "supplies" THEN (OutputField(s) :> Fill(s)) ELSE EmptyMap

\* the manner in which the first stage of call i was answered
MannerOf(i) ==
  IF OutputField(Stages[1]) \in DOMAIN rets[i][1].result THEN "supplies" ELSE "omits"

ReturnsInManner(i) ==
  /\ pc[i] \in StageSet
  /\ \E manner \in Manners :
       /\ rets[i] # <<>> => manner = MannerOf(i)
       /\ Resume(i, Answer(pc[i], manner))

NextMany ==
  \E i \in Inv :
    \/ Run(i)
    \/ ReturnsInManner(i)
    \/ AgentFails(i)

SpecMany == InitTwice /\ [][NextMany]_vars

\* ------------------------------------- one call of run(), every call answered
\* Every call to the backend and to the service returns, so the agent awaited
\* always takes its next step: it calls its tool, returns, or raises.
AgentStep(i) == ToolCall(i) \/ AgentReturns(i) \/ AgentFails(i)

NextLive ==
  \/ Run(1)
  \/ ToolCall(1)
  \/ AgentReturns(1)
  \/ AgentFails(1)

SpecLive == InitTwice /\ [][NextLive]_vars /\ WF_vars(AgentStep(1))

\* ======================================================================
\* Properties
\* ======================================================================
\* the six stages in their documented order: Formulate, BuildQuery,
\* Retrieve, Prescreen, RetrievePdfs, Synthesize
StageOrder ==
  << "problem_agent", "query_builder_agent", "retrieval_agent",
     "prescreen_agent", "pdf_agent", "synthesis_agent" >>

\* the output field each stage declares, in that order
StageField ==
  << "refined_query", "search_query", "papers", "filtered_papers", "pdf_links",
     "final_summary" >>

\* the documented fallback of the k-th stage, given the locals after it
DocFallback(k, l) ==
  CASE k = 1 -> l["query"]
    [] k = 2 -> l["refined_query"]
    [] k \in {3, 4, 5} -> <<>>
    [] k = 6 -> "No papers were provided for analysis."

\* the k-th agent call of invocation i returned without its declared field
Omitted(i, k) ==
  /\ k \in 1..Len(rets[i])
  /\ ~rets[i][k].failed
  /\ StageField[k] \notin DOMAIN rets[i][k].result

\* invocation i went on after its k-th agent call: the next stage was called,
\* or (after the sixth) run() returned
Advanced(i, k) ==
  IF k < 6 THEN Len(calls[i]) > k /\ calls[i][k + 1].stage = StageOrder[k + 1]
  ELSE pc[i] = "done"

\* C1: whenever a stage's result omits the declared output field, the field
\* is set to the documented fallback and the pipeline advances to the next stage
C1_FallbackOnOmission ==
  \A i \in Inv : \A k \in 1..Len(rets[i]) :
    Omitted(i, k) =>
      /\ StageField[k] \in DOMAIN loc[i]
      /\ loc[i][StageField[k]] = DocFallback(k, loc[i])
      /\ Advanced(i, k)

\* C1 witness: a run completed in which all six stages omitted their field
C1_Witness ==
  \E i \in Inv : pc[i] = "done" /\ \A k \in 1..6 : Omitted(i, k)

\* C2: the stages are called strictly in the documented order, each at most
\* once; a call that returns always leads to the next stage whatever the
\* content (an empty papers list included), and run() returns only after all six
C2_StrictOrder ==
  \A i \in Inv :
    /\ Len(calls[i]) <= 6
    /\ \A k \in 1..Len(calls[i]) : calls[i][k].stage = StageOrder[k]
    /\ \A k \in 1..Len(rets[i]) : ~rets[i][k].failed => Advanced(i, k)
    /\ pc[i] = "done" => Len(calls[i]) = 6 /\ Len(rets[i]) = 6
    /\ pc[i] \in StageSet => Len(calls[i]) = Len(rets[i]) + 1 /\ pc[i] = StageOrder[Len(calls[i])]

\* C2 witness: a completed run whose papers list was empty
C2_Witness ==
  \E i \in Inv : pc[i] = "done" /\ loc[i]["papers"] = <<>> /\ Len(calls[i]) = 6

\* the panels of out[i] that show a stage's output
StagePanels(i) == SubSeq(out[i], 3, Len(out[i]))

\* the k-th agent call of invocation i failed outright
Failed(i, k) == k \in 1..Len(rets[i]) /\ rets[i][k].failed

\* the failure of the k-th call ended the invocation: no later call, no retry
AbortedAt(i, k) ==
  /\ pc[i] = "aborted"
  /\ Len(rets[i]) = k
  /\ Len(calls[i]) = k
  /\ \A j \in 1..(k - 1) : calls[i][j].stage # calls[i][k].stage

\* C3 as stated: a backend failure aborts the invocation with no later
\* stage, no retry, and no output of any earlier stage produced
C3_NoPartialOutput ==
  \A i \in Inv : \A k \in 1..Len(rets[i]) :
    Failed(i, k) => AbortedAt(i, k) /\ StagePanels(i) = <<>>

\* C3 amended: a backend failure aborts the invocation with no later stage
\* and no retry; the panels printed are exactly those of the stages that
\* returned before the failure, none for the failed stage or a later one
C3_AbortKeepsEarlierOutput ==
  \A i \in Inv : \A k \in 1..Len(rets[i]) :
    Failed(i, k) =>
      /\ AbortedAt(i, k)
      /\ Len(StagePanels(i)) = k - 1
      /\ \A j \in 1..(k - 1) :
           /\ ~rets[i][j].failed
           /\ StagePanels(i)[j].shows =
                IF j = 3 THEN << Len(loc[i][StageField[j]]) >> ELSE << loc[i][StageField[j]] >>

\* C3 witness: the backend failed in the third stage, after two panels
C3_Witness ==
  \E i \in Inv : Failed(i, 3) /\ pc[i] = "aborted" /\ Len(StagePanels(i)) = 2

\* the items of the body of the last direct connector call
ItemsOf(response) == Get(Get(response.data, "message", EmptyMap), "items", <<>>)

\* the last direct connector call got a success status and a JSON body
Succeeded == conn.made /\ conn.response.status_code = 200 /\ conn.response.json_ok

\* C4 as stated: every record returned has a non-empty title, and an item
\* whose title list is absent or empty yields "Untitled" without a failure
C4_TitleNeverEmpty ==
  Succeeded =>
    LET items == ItemsOf(conn.response)
    IN /\ conn.result.kind = "papers"
       /\ Len(conn.result.value) = Len(items)
       /\ \A k \in 1..Len(items) :
            /\ conn.result.value[k].title # ""
            /\ ("title" \notin DOMAIN items[k] \/ items[k]["title"] = <<>>)
                 => conn.result.value[k].title = "Untitled"

\* C5 as stated: the error result is returned exactly on the statuses
\* outside 2xx
C5_ErrorIffNon2xx ==
  conn.made =>
    (conn.result = ErrorResult <=> conn.response.status_code \notin 200..299)

\* C5 amended: the error result is returned, without raising, exactly on the
\* statuses other than 200 (every status outside 2xx among them)
C5_ErrorIffNot200 ==
  conn.made =>
    /\ conn.result = ErrorResult <=> conn.response.status_code # 200
    /\ conn.response.status_code \notin 200..299 =>
         conn.result.kind = "error" /\ conn.result.value = <<>>

\* C5 witness: a call answered with HTTP 500 returned the error result
C5_Witness ==
  conn.made /\ conn.response.status_code = 500 /\ conn.result = ErrorResult

\* invocation i completed with nothing retrieved, filtered, linked or summarised
EmptyRun(i) ==
  /\ pc[i] = "done"
  /\ loc[i]["papers"] = <<>>
  /\ loc[i]["filtered_papers"] = <<>>
  /\ loc[i]["pdf_links"] = <<>>
  /\ loc[i]["final_summary"] = "No papers were provided for analysis."

\* C6 as stated: whenever a connector call made during Retrieve returned a
\* non-success status, the invocation does not raise and finishes with empty
\* papers, filtered_papers, pdf_links and the sentinel summary
C6_ErrorEndsEmpty ==
  \A i \in Inv :
    sawError[i] /\ pc[i] \in {"done", "aborted"} => EmptyRun(i)

\* C6 amended: a non-success status in a connector call during Retrieve does
\* not itself abort the invocation (only a backend failure does), and when
\* Retrieve, Prescreen, RetrievePdfs and Synthesize then all omit their output
\* field the invocation finishes with empty papers, filtered_papers, pdf_links
\* and the sentinel summary
C6_ErrorThenOmissionsEndEmpty ==
  \A i \in Inv :
    sawError[i] =>
      /\ pc[i] = "aborted" => Failed(i, Len(rets[i]))
      /\ (\A k \in 3..6 : Omitted(i, k)) => EmptyRun(i)

\* C6 witness: a run in which the connector returned the error result and
\* the last four stages omitted their field
C6_Witness ==
  \E i \in Inv : sawError[i] /\ pc[i] = "done" /\ \A k \in 3..6 : Omitted(i, k)

\* the effective output of the k-th stage of invocation i: the value the
\* backend returned, or the fallback when it omitted the field
EffectiveOut(i, k) ==
  IF StageField[k] \in DOMAIN rets[i][k].result
  THEN rets[i][k].result[StageField[k]]
  ELSE DocFallback(k, loc[i])

\* the input the k-th stage of invocation i is documented to receive
DocInput(i, k) ==
  CASE k = 1 -> ("query" :> loc[i]["query"])
    [] k = 2 -> ("refined_query" :> EffectiveOut(i, 1))
    [] k = 3 -> ("refined_query" :> EffectiveOut(i, 2))
    [] k = 4 -> ("papers" :> EffectiveOut(i, 3))
    [] k = 5 -> ("filtered_papers" :> EffectiveOut(i, 4))
    [] k = 6 -> ("pdf_links" :> EffectiveOut(i, 5)
                 @@ "filtered_papers" :> calls[i][5].kwargs["filtered_papers"])

\* C7: each stage receives exactly the effective output of the stage before
\* it (Retrieve receives search_query under the name refined_query), and
\* Synthesize also the filtered_papers value that RetrievePdfs received
C7_InputsFromPredecessor ==
  \A i \in Inv : \A k \in 1..Len(calls[i]) : calls[i][k].kwargs = DocInput(i, k)

\* C7 witness: a completed run whose query, refined_query and search_query
\* all differ, Retrieve having received the search_query
C7_Witness ==
  \E i \in Inv :
    /\ pc[i] = "done"
    /\ loc[i]["refined_query"] = "r"
    /\ loc[i]["search_query"] = "s"
    /\ calls[i][3].kwargs = ("refined_query" :> "s")
    /\ loc[i]["filtered_papers"] # <<>>

\* C9: only Retrieve is configured with the Search Connector, only Synthesize
\* runs in direct mode, and connector calls are made only while Retrieve runs
C9_ToolOnlyInRetrieve ==
  /\ \A s \in StageSet : Tools(s) # {} <=> s = "retrieval_agent"
  /\ Tools("retrieval_agent") = { "crossref_search_json" }
  /\ \A s \in StageSet : Mode(s) # "ReAct" <=> s = "synthesis_agent"
  /\ \A i \in Inv :
       /\ traj[i] # <<>> => pc[i] = "retrieval_agent"
       /\ Len(calls[i]) < 3 => ~sawError[i]
  /\ httpRequests > 0 => \E i \in Inv : Len(calls[i]) >= 3

\* C9 witness: Retrieve is running and has called the connector
C9_Witness ==
  \E i \in Inv : pc[i] = "retrieval_agent" /\ Len(traj[i]) = MaxIters /\ httpRequests = MaxIters

\* the credential names whose value is a non-empty string
NonEmptyNames == { n \in DOMAIN environ : environ[n] # "" }

\* the process accepted no query, called no agent and made no request
NothingRan ==
  /\ \A i \in Inv : pc[i] = "idle" /\ calls[i] = <<>> /\ out[i] = <<>>
  /\ httpRequests = 0

\* C10 as stated: startup fails, with nothing run, when neither variable is
\* set; when at least one is set the first name present supplies the
\* credential and startup proceeds
C10_SetMeansStart ==
  /\ proc = "boot" => NothingRan
  /\ proc # "boot" =>
       IF DOMAIN environ = {} THEN proc = "failed" /\ NothingRan
       ELSE /\ proc = "ready"
            /\ api_key = IF "GOOGLE_API_KEY" \in DOMAIN environ
                          THEN environ["GOOGLE_API_KEY"] ELSE environ["GEMINI_API_KEY"]

\* C10 amended: startup fails, with nothing run, when neither variable holds
\* a non-empty value (unset or set to the empty string); otherwise the first
\* of the two names holding a non-empty value supplies the credential and
\* startup proceeds
C10_NonEmptyMeansStart ==
  /\ proc = "boot" => NothingRan
  /\ proc # "boot" =>
       IF NonEmptyNames = {} THEN proc = "failed" /\ NothingRan
       ELSE /\ proc = "ready"
            /\ api_key = IF "GOOGLE_API_KEY" \in NonEmptyNames
                          THEN environ["GOOGLE_API_KEY"] ELSE environ["GEMINI_API_KEY"]

\* C10 witness: neither variable was set and the import failed
C10_Witness == DOMAIN environ = {} /\ proc = "failed"

\* the locals of invocation j are those invocation i had at the same point
SameSoFar(i, j) ==
  /\ DOMAIN loc[j] \subseteq DOMAIN loc[i]
  /\ \A f \in DOMAIN loc[j] : loc[j][f] = loc[i][f]

\* C8: against a backend that answers identical inputs identically, a later
\* invocation with the same query has after every stage the values the
\* earlier one had after that stage, and ends as the earlier one ended
C8_SameQuerySameState ==
  \A i, j \in Inv :
    (i < j /\ pc[j] # "idle" /\ loc[i]["query"] = loc[j]["query"]) =>
      /\ SameSoFar(i, j)
      /\ \A k \in 1..Len(out[j]) : out[j][k] = out[i][k]
      /\ pc[j] \in { "done", "aborted" } => pc[j] = pc[i] /\ loc[j] = loc[i]

\* C8 witness: two completed invocations with the same query, the first
\* having produced papers
C8_Witness ==
  \E i, j \in Inv :
    /\ i < j /\ pc[i] = "done" /\ pc[j] = "done"
    /\ loc[i]["query"] = loc[j]["query"]
    /\ loc[i]["papers"] # <<>>
    /\ loc[j] = loc[i]

\* C11 as stated: every sequence returned by one connector call has at most
\* 5 elements, whatever the number of items in the response body
C11_AtMostFive ==
  (conn.made /\ conn.result.kind = "papers") => Len(conn.result.value) <= Rows

\* C11 as the code has it: the call asks the service for 5 rows and returns
\* one record per item of the body it gets, so the sequence has at most 5
\* elements exactly when the body has at most 5 items
C11_FiveAskedNoneCut ==
  conn.made =>
    /\ conn.url.rows = 5
    /\ conn.result.kind = "papers" =>
         /\ Len(conn.result.value) = Len(ItemsOf(conn.response))
         /\ Len(conn.result.value) <= Rows <=> Len(ItemsOf(conn.response)) <= Rows

\* a call that returned a full page of 5 records
C11_Witness ==
  /\ conn.made
  /\ conn.result.kind = "papers"
  /\ Len(conn.result.value) = Rows

\* C12: each connector call issues exactly one HTTP request (no retry after
\* a non-success status, no further page), and a call repeated with the same
\* query and the same answer of the service returns what the earlier call
\* returned
C12_OneRequestSameResult ==
  [][ /\ httpRequests' = httpRequests + 1
      /\ conn'.made
      /\ conn'.result = crossref_search_json(conn.query, conn.response)
      /\ conn.made => conn'.result = conn.result ]_vars

\* two calls made one after the other, each answered by a non-success
\* status, and two requests in all
C12_Witness ==
  /\ conn.made
  /\ FetchFailed(conn.response)
  /\ conn.result = ErrorResult
  /\ httpRequests = 2

\* C14: at the moment any stage is invoked, every local its call reads is
\* bound and every input field its signature declares is passed, whichever
\* of the earlier stages omitted or supplied their output
C14_InputsDefined ==
  \A i \in Inv : \A k \in 1..Len(calls[i]) :
    /\ Reads(calls[i][k].stage) \subseteq calls[i][k].bound
    /\ DOMAIN calls[i][k].kwargs = InputFields(calls[i][k].stage)

\* a run completed in which the first, third and fifth stages omitted their
\* field and the others supplied it
C14_Witness ==
  \E i \in Inv :
    /\ pc[i] = "done"
    /\ Len(calls[i]) = 6
    /\ \A k \in {1, 3, 5} : Omitted(i, k)
    /\ \A k \in {2, 4, 6} : ~Omitted(i, k)

\* C15: on a successful response the connector returns exactly one record
\* per element of message.items, in the same order and without removing
\* duplicates; doi, url and publisher are copied from DOI, URL and publisher
\* (null when absent), the title is the first element of the title list; a
\* body without message or without items yields the empty sequence
C15_OneRecordPerItem ==
  Succeeded =>
    LET items == ItemsOf(conn.response)
    IN /\ conn.result.kind = "papers"
       /\ Len(conn.result.value) = Len(items)
       /\ \A k \in 1..Len(items) :
            LET titles == Get(items[k], "title", << "Untitled" >>)
            IN /\ conn.result.value[k].doi = Get(items[k], "DOI", None)
               /\ conn.result.value[k].url = Get(items[k], "URL", None)
               /\ conn.result.value[k].publisher = Get(items[k], "publisher", None)
               /\ titles # <<>> => conn.result.value[k].title = titles[1]

\* the k-th agent call of invocation i returned with its declared field
Supplied(i, k) ==
  /\ k \in 1..Len(rets[i])
  /\ ~rets[i][k].failed
  /\ StageField[k] \in DOMAIN rets[i][k].result

\* C17: the fallback is applied only when the field is absent from the
\* stage's result; a value that is present is used as it is, the empty
\* string and the empty list included, and a non-empty final_summary is
\* never replaced by the placeholder text
C17_PresentValueKept ==
  \A i \in Inv : \A k \in 1..Len(rets[i]) :
    Supplied(i, k) =>
      /\ loc[i][StageField[k]] = rets[i][k].result[StageField[k]]
      /\ out[i][k + 2] = Panel(StageOrder[k], rets[i][k].result[StageField[k]])
      /\ (k = 6 /\ rets[i][k].result[StageField[k]] # "") => loc[i]["final_summary"] # Sentinel

\* a run completed in which the first stage supplied the empty string, the
\* third the empty list and the sixth a summary
C17_Witness ==
  \E i \in Inv :
    /\ pc[i] = "done"
    /\ Supplied(i, 1) /\ rets[i][1].result["refined_query"] = ""
    /\ loc[i]["refined_query"] = "" /\ loc[i]["query"] # ""
    /\ Supplied(i, 3) /\ rets[i][3].result["papers"] = <<>>
    /\ Supplied(i, 6) /\ loc[i]["final_summary"] = "S"

\* the fields a step of invocation i may assign: `query` on entry, the
\* stage's own output field while the stage is awaited, none afterwards
OwnField(i) ==
  IF pc[i] = "idle" THEN { "query" }
  ELSE IF pc[i] \in StageSet THEN { OutputField(pc[i]) }
  ELSE {}

\* C18: each stage's step assigns only that stage's own output field and
\* leaves every other field as it was; a field once assigned is never
\* modified, so each of the six is assigned once per invocation, and `query`
\* is never modified after entry
C18_OnlyOwnField ==
  [][ \A i \in Inv :
        /\ \A f \in DOMAIN loc[i] : f \in DOMAIN loc'[i] /\ loc'[i][f] = loc[i][f]
        /\ (DOMAIN loc'[i] \ DOMAIN loc[i]) \subseteq OwnField(i)
        /\ pc[i] \in StageSet => OutputField(pc[i]) \notin DOMAIN loc[i]
        /\ (pc[i] \in StageSet /\ pc'[i] \notin { pc[i], "aborted" })
             => DOMAIN loc'[i] = DOMAIN loc[i] \cup { OutputField(pc[i]) } ]_vars

\* a run completed with the query and all six output fields assigned
C18_Witness ==
  \E i \in Inv :
    /\ pc[i] = "done"
    /\ DOMAIN loc[i] = { "query" } \cup { StageField[k] : k \in 1..6 }
    /\ loc[i]["query"] = calls[i][1].kwargs["query"]
    /\ loc[i]["refined_query"] # loc[i]["query"]

\* the stages of invocation i that have returned a result
Returned(i) == { k \in 1..Len(rets[i]) : ~rets[i][k].failed }

\* the fields of invocation i are what its own query and the results
\* returned to it make them
OwnValues(i) ==
  /\ loc[i]["query"] = calls[i][1].kwargs["query"]
  /\ DOMAIN loc[i] = { "query" } \cup { StageField[k] : k \in Returned(i) }
  /\ \A k \in Returned(i) : loc[i][StageField[k]] = EffectiveOut(i, k)

====
